---------------------------- MODULE Spec2Model ----------------------------
(***************************************************************************)
(* A model of server.js (Deutsch Leseecke): the Express route handlers,    *)
(* the session identity, the five tables behind lib/db and the uploads     *)
(* directory.  Texts are sequences of one-character strings so that trim,  *)
(* toUpperCase, toLowerCase and Number.parseInt are computed, not assumed. *)
(***************************************************************************)
EXTENDS Integers, Sequences, FiniteSets, TLC

VARIABLES
    users,      \* table users: sequence of rows [id, email, password_hash]
    stories,    \* table stories: sequence of committed rows
    questions,  \* table questions: sequence of committed rows
    sessions,   \* session store: session id -> [user, returnTo]
    job,        \* the POST /stories or POST /questions request being handled
    disk,       \* stored names of the files present in AUDIO_UPLOAD_DIR
    unlinked,   \* stored names for which fs.unlink has been requested
    resp,       \* the response of the request handled last
    autoinc,    \* the AUTO_INCREMENT counters of the tables
    learning,   \* tables vocabulary_entries and grammar_topics
    signups,    \* the POST /signup requests between their lookup and their insert
    seen        \* history: the failed-login responses given so far

vars == <<users, stories, questions, sessions, job, disk, unlinked, resp,
          autoinc, learning, signups, seen>>

-----------------------------------------------------------------------------
(* Bounds of the model *)

MaxStories == 2
MaxQuestions == 2
MaxUsers == 2
MaxFiles == 2
MaxLearning == 2
MaxTime == 2
MaxContent == 2
MaxParseQuestions == 3

-----------------------------------------------------------------------------
(* Texts *)

IsSpace(c) == c = " "

RECURSIVE TrimStart(_)
TrimStart(s) ==
    IF s = <<>> THEN <<>>
    ELSE IF IsSpace(Head(s)) THEN TrimStart(Tail(s)) ELSE s

RECURSIVE TrimEnd(_)
TrimEnd(s) ==
    IF s = <<>> THEN <<>>
    ELSE IF IsSpace(s[Len(s)]) THEN TrimEnd(SubSeq(s, 1, Len(s) - 1)) ELSE s

\* String.prototype.trim
Trim(s) == TrimEnd(TrimStart(s))

\* A text is a sequence of tokens: a token is a blank or a word, and a word
\* that has letters comes in the spellings the inputs use.
UpperChar(c) ==
    CASE c = "a1" -> "A1"
      [] c = "c2" -> "C2"
      [] c = "d1" -> "D1"
      [] c = "karen12389033@gmail.com" -> "KAREN12389033@GMAIL.COM"
      [] c = "reader@example.com" -> "READER@EXAMPLE.COM"
      [] OTHER -> c

LowerChar(c) ==
    CASE c = "A1" -> "a1"
      [] c = "C2" -> "c2"
      [] c = "D1" -> "d1"
      [] c = "KAREN12389033@GMAIL.COM" -> "karen12389033@gmail.com"
      [] c = "READER@EXAMPLE.COM" -> "reader@example.com"
      [] OTHER -> c

\* String.prototype.toUpperCase / toLowerCase
ToUpperCase(s) == [i \in 1..Len(s) |-> UpperChar(s[i])]
ToLowerCase(s) == [i \in 1..Len(s) |-> LowerChar(s[i])]

\* JavaScript truthiness of a string
Truthy(s) == s # <<>>

-----------------------------------------------------------------------------
(* Numbers as Number.parseInt(value, 10) yields them *)

NaN == [nan |-> TRUE, val |-> 0]
Num(n) == [nan |-> FALSE, val |-> n]

Digits == {"0", "1", "2", "3", "4", "5", "6", "7", "8", "9"}

DigitVal(c) ==
    CASE c = "0" -> 0 [] c = "1" -> 1 [] c = "2" -> 2 [] c = "3" -> 3
      [] c = "4" -> 4 [] c = "5" -> 5 [] c = "6" -> 6 [] c = "7" -> 7
      [] c = "8" -> 8 [] c = "9" -> 9

\* the value of the longest prefix of digits of s, continuing from acc
RECURSIVE DigitPrefix(_, _, _)
DigitPrefix(s, acc, any) ==
    IF s # <<>> /\ Head(s) \in Digits
    THEN DigitPrefix(Tail(s), 10 * acc + DigitVal(Head(s)), TRUE)
    ELSE [any |-> any, val |-> acc]

\* Number.parseInt(s, 10) of a string; Absent (undefined) parses to NaN
Absent == <<"undefined">>

ParseInt(s) ==
    IF s = Absent THEN NaN
    ELSE LET t == TrimStart(s)
             neg == t # <<>> /\ Head(t) = "-"
             u == IF t # <<>> /\ Head(t) \in {"-", "+"} THEN Tail(t) ELSE t
             d == DigitPrefix(u, 0, FALSE)
         IN  IF d.any THEN Num(IF neg THEN 0 - d.val ELSE d.val) ELSE NaN

\* (value || "") for a form value that may be absent
OrEmpty(s) == IF s = Absent THEN <<>> ELSE s

-----------------------------------------------------------------------------
(* parseStoryQuestions *)

\* A form field or attachment name.  kind says which of the patterns
\* questions[i][prompt], questions[i][correctIndex], questions[i][answers][k],
\* questions[i][audio] the name matches ("other": none of them); index and
\* sub are the numbers the pattern captures.
FieldName(kind, index, sub) == [kind |-> kind, index |-> index, sub |-> sub]

NoFile == [fieldname |-> FieldName("other", 0, 0), filename |-> 0, ext |-> "none"]

\* the record ensureQuestion creates for an index it has not seen
NewQuestion ==
    [prompt |-> <<>>, answers |-> <<<<>>, <<>>, <<>>, <<>>>>,
     correctIndex |-> Num(0), file |-> NoFile]

ensureQuestion(questionMap, index) ==
    IF index \in DOMAIN questionMap THEN questionMap
    ELSE questionMap @@ (index :> NewQuestion)

\* one iteration of the loop over Object.entries(body)
ApplyField(questionMap, entry) ==
    LET name == entry.name
        qm == ensureQuestion(questionMap, name.index)
    IN  CASE name.kind = "prompt" ->
               [qm EXCEPT ![name.index].prompt = Trim(OrEmpty(entry.value))]
          [] name.kind = "correctIndex" ->
               [qm EXCEPT ![name.index].correctIndex = ParseInt(entry.value)]
          [] name.kind = "answers" ->
               IF name.sub >= 0 /\ name.sub < 4
               THEN [qm EXCEPT ![name.index].answers[name.sub + 1] =
                                   Trim(OrEmpty(entry.value))]
               ELSE qm
          [] OTHER -> questionMap

\* one iteration of the loop over files
ApplyFile(questionMap, file) ==
    IF file.fieldname.kind # "audio" THEN questionMap
    ELSE [ensureQuestion(questionMap, file.fieldname.index)
            EXCEPT ![file.fieldname.index].file = file]

RECURSIVE FoldFields(_, _, _)
FoldFields(questionMap, body, i) ==
    IF i > Len(body) THEN questionMap
    ELSE FoldFields(ApplyField(questionMap, body[i]), body, i + 1)

RECURSIVE FoldFiles(_, _, _)
FoldFiles(questionMap, files, i) ==
    IF i > Len(files) THEN questionMap
    ELSE FoldFiles(ApplyFile(questionMap, files[i]), files, i + 1)

Min(S) == CHOOSE x \in S : \A y \in S : x <= y

\* the map's entries in insertion order: the sort left out
RECURSIVE InsertionOrder(_, _, _)
InsertionOrder(body, files, seenKeys) ==
    IF body # <<>>
    THEN LET i == Head(body).name.index
             hit == Head(body).name.kind \in {"prompt", "correctIndex", "answers"}
                    /\ i \notin seenKeys
         IN  (IF hit THEN <<i>> ELSE <<>>)
             \o InsertionOrder(Tail(body), files, IF hit THEN seenKeys \cup {i} ELSE seenKeys)
    ELSE IF files # <<>>
    THEN LET i == Head(files).fieldname.index
             hit == Head(files).fieldname.kind = "audio" /\ i \notin seenKeys
         IN  (IF hit THEN <<i>> ELSE <<>>)
             \o InsertionOrder(body, Tail(files), IF hit THEN seenKeys \cup {i} ELSE seenKeys)
    ELSE <<>>

\* Array.from(questionMap.entries()).sort((a, b) => a[0] - b[0]).map(...)
RECURSIVE SortedByIndex(_, _)
SortedByIndex(questionMap, keys) ==
    IF keys = {} THEN <<>>
    ELSE <<questionMap[Min(keys)]>> \o SortedByIndex(questionMap, keys \ {Min(keys)})

\* the filter callback of parseStoryQuestions
KeepQuestion(question) ==
    LET hasPrompt == Truthy(question.prompt)
        hasAnyAnswer == \E k \in 1..4 : Truthy(question.answers[k])
    IN  hasPrompt \/ hasAnyAnswer

EmptyMap == [i \in {} |-> NewQuestion]

\* parseStoryQuestions without the sort by index
parseStoryQuestionsUnsorted(body, files) ==
    LET questionMap == FoldFiles(FoldFields(EmptyMap, body, 1), files, 1)
        order == InsertionOrder(body, files, {})
    IN  SelectSeq([n \in 1..Len(order) |-> questionMap[order[n]]], KeepQuestion)

parseStoryQuestions(body, files) ==
    LET questionMap == FoldFiles(FoldFields(EmptyMap, body, 1), files, 1)
        sorted == SortedByIndex(questionMap, DOMAIN questionMap)
    IN  SelectSeq(sorted, KeepQuestion)

-----------------------------------------------------------------------------
(* Program constants and helpers *)

ADMIN_EMAIL == <<"karen12389033@gmail.com">>

STORY_LEVELS == {<<"A1">>, <<"A2">>, <<"B1">>, <<"B2">>, <<"C1">>, <<"C2">>}

SessionIds == {"s1", "s2"}

NoUser == [id |-> 0, email |-> <<>>]
\* URLs and view names are texts; no URL is the empty text
NoUrl == <<>>

normalizeEmail(email) == ToLowerCase(Trim(email))

isAdmin(user) == user # NoUser /\ user.email = ADMIN_EMAIL

\* requireAdmin sending every non-admin to the login page
requireAdminLoginOnly(user) ==
    IF ~isAdmin(user) THEN "login" ELSE "next"

\* requireAdmin letting every logged-in user through, as requireAuth does
requireAdminAnyIdentity(user) ==
    IF user = NoUser THEN "login" ELSE "next"

\* what requireAdmin does with a request of session s
requireAdmin(user) ==
    IF user = NoUser THEN "login"
    ELSE IF ~isAdmin(user) THEN "403"
    ELSE "next"

\* what requireAuth does with a request of session s
requireAuth(user) == IF user = NoUser THEN "login" ELSE "next"

\* the fileFilter of the multer instance
fileFilter(file) == file.ext = "mp3"

\* path.posix.join("uploads/questions", file.filename); null is <<>>
AudioPath(file) ==
    IF file = NoFile THEN <<>> ELSE <<"uploads/questions", file.filename>>

\* the names cleanupFiles(files) asks fs.unlink to delete
cleanupFiles(files) == {files[i].filename : i \in 1..Len(files)}

NoValues == [title |-> <<>>, level |-> <<"A1">>, summary |-> <<>>, body |-> <<>>,
             questions |-> <<>>]

Response(status, kind, target, error, values) ==
    [status |-> status, kind |-> kind, target |-> target, error |-> error,
     values |-> values]

NoResponse == Response(0, "none", <<>>, "none", NoValues)

\* renderForm of POST /stories
renderStoryForm(status, errorMessage, values) ==
    Response(status, "render", <<"stories/new">>, errorMessage, values)

\* the last error-handling middleware: res.status(500).render("errors/500")
render500 == Response(500, "render", <<"errors/500">>, "none", NoValues)

NoTx == [stories |-> <<>>, questions |-> <<>>]

\* a handler with no database write of its own has answered
Answered(route, s) ==
    [route |-> route, pc |-> "done", sid |-> s, user |-> NoUser,
     form |-> <<>>, files |-> <<>>, values |-> NoValues, storyId |-> 0, k |-> 0,
     tx |-> NoTx, failed |-> "none", rollback |-> "none",
     before |-> [stories |-> 0, questions |-> 0]]

IdleJob ==
    [route |-> "none", pc |-> "idle", sid |-> "none", user |-> NoUser,
     form |-> <<>>, files |-> <<>>, values |-> NoValues, storyId |-> 0, k |-> 0,
     tx |-> NoTx, failed |-> "none", rollback |-> "none", before |-> [stories |-> 0, questions |-> 0]]

\* the row createStory inserts
StoryRow(id, values, authorId) ==
    [id |-> id, title |-> values.title, level |-> values.level,
     summary |-> values.summary, body |-> values.body, author_id |-> authorId]

\* createQuestion with the new row's own id bound to story_id
QuestionRowOwnId(id, storyId, question, audioPath, authorId) ==
    [id |-> id, story_id |-> id, prompt |-> question.prompt,
     answers |-> SubSeq(question.answers, 1, 4),
     correct_index |-> question.correctIndex, audio_path |-> audioPath,
     author_id |-> authorId]

\* the row createQuestion inserts
QuestionRow(id, storyId, question, audioPath, authorId) ==
    [id |-> id, story_id |-> storyId, prompt |-> question.prompt,
     answers |-> SubSeq(question.answers, 1, 4),
     correct_index |-> question.correctIndex, audio_path |-> audioPath,
     author_id |-> authorId]

-----------------------------------------------------------------------------
(* The submissions the model draws for POST /stories *)

Entry(name, value) == [name |-> name, value |-> value]

Attachment(fieldname, ext) == [fieldname |-> fieldname, ext |-> ext]

\* the form fields of question i, in the order the browser sends them;
\* ci = Absent: no correctIndex field is sent
QuestionFields(i, prompt, answers, ci) ==
    <<Entry(FieldName("prompt", i, 0), prompt)>>
    \o [k \in 1..Len(answers) |-> Entry(FieldName("answers", i, k - 1), answers[k])]
    \o (IF ci = Absent THEN <<>> ELSE <<Entry(FieldName("correctIndex", i, 0), ci)>>)

Answers4 == <<<<"Rot">>, <<"Blau">>, <<" ", "Gruen">>, <<"Gelb">>>>
Answers3 == <<<<"Rot">>, <<"Blau">>, <<"Gruen">>>>
NoAnswers == <<<<>>, <<" ">>, <<>>, <<>>>>

GoodFields(i, ci) == QuestionFields(i, <<"Farbe?", " ">>, Answers4, ci)
BlankFields(i) == QuestionFields(i, <<" ">>, NoAnswers, <<"1">>)

QuestionBodies ==
    { <<>>,
      GoodFields(0, <<"2">>),
      GoodFields(0, <<"5">>),
      GoodFields(0, <<"x">>),
      GoodFields(0, <<"2", "x">>),
      GoodFields(0, <<"-", "1">>),
      GoodFields(0, Absent),
      QuestionFields(0, <<"Farbe?">>, Answers3, <<"1">>),
      QuestionFields(0, <<>>, Answers4, <<"1">>),
      BlankFields(0),
      GoodFields(2, <<"3">>) \o GoodFields(0, <<"1">>),
      GoodFields(0, <<"1">>) \o GoodFields(2, <<"7">>),
      BlankFields(0) \o GoodFields(5, <<" ", "0">>) }

Audio(i) == Attachment(FieldName("audio", i, 0), "mp3")

AttachmentLists ==
    { <<>>,
      <<Audio(0)>>,
      <<Audio(7)>>,
      <<Attachment(FieldName("other", 0, 0), "mp3")>>,
      <<Attachment(FieldName("audio", 0, 0), "wav")>>,
      <<Audio(0), Audio(0)>>,
      <<Audio(0), Attachment(FieldName("audio", 2, 0), "wav")>> }

StoryForm(title, level, summary, body, fields, files) ==
    [title |-> title, level |-> level, summary |-> summary, body |-> body,
     fields |-> fields, files |-> files]

GoodTitle == <<" ", "Der Mond", " ">>

StoryForms ==
    { StoryForm(GoodTitle, <<"a1">>, <<"S">>, <<"B", " ">>, f, a) :
        f \in QuestionBodies, a \in {<<>>, <<Audio(0)>>} }
    \cup
    { StoryForm(GoodTitle, <<"a1">>, <<"S">>, <<"B", " ">>, f, a) :
        f \in {<<>>, GoodFields(2, <<"3">>) \o GoodFields(0, <<"1">>)},
        a \in AttachmentLists }
    \cup
    { StoryForm(t, l, <<"S">>, <<"B">>, GoodFields(0, <<"2">>), <<Audio(0)>>) :
        t \in {GoodTitle, <<" ">>},
        l \in {<<" ", "c2">>, <<"d1">>, Absent} }
    \cup
    { StoryForm(GoodTitle, <<"C2">>, m, b, <<>>, <<>>) :
        m \in {<<"S">>, <<>>}, b \in {<<"B">>, <<" ">>} }

-----------------------------------------------------------------------------
(* POST /stories *)

\* runUpload with upload.any(): the attachments are stored in order under
\* fresh names until the fileFilter rejects one
RejectAt(files) ==
    IF \E i \in 1..Len(files) : ~fileFilter(files[i])
    THEN Min({i \in 1..Len(files) : ~fileFilter(files[i])})
    ELSE 0

StoredFiles(files, base) ==
    LET n == IF RejectAt(files) = 0 THEN Len(files) ELSE RejectAt(files) - 1
    IN  [i \in 1..n |-> [fieldname |-> files[i].fieldname, filename |-> base + i,
                         ext |-> files[i].ext]]

\* values as the handler fills them in from req.body after the upload
StoryValues(form, files) ==
    [title |-> Trim(OrEmpty(form.title)),
     level |-> ToUpperCase(Trim(OrEmpty(form.level))),
     summary |-> Trim(OrEmpty(form.summary)),
     body |-> Trim(OrEmpty(form.body)),
     questions |-> parseStoryQuestions(form.fields, files)]

\* the per-question checks of the validation loop; "ok" or the message
QuestionError(question) ==
    IF ~Truthy(question.prompt) \/ \E k \in 1..Len(question.answers) :
                                       ~Truthy(question.answers[k])
    THEN "Each question must include a prompt and four answers."
    ELSE IF question.correctIndex.nan \/ question.correctIndex.val < 0
            \/ question.correctIndex.val > 3
    THEN "Select which answer is correct for each question."
    ELSE "ok"

\* the validation loop over values.questions: the message of the first
\* question that fails, "ok" if none does
QuestionsError(qs) ==
    IF \E i \in 1..Len(qs) : QuestionError(qs[i]) # "ok"
    THEN QuestionError(qs[Min({i \in 1..Len(qs) : QuestionError(qs[i]) # "ok"})])
    ELSE "ok"

\* the first failing check of the handler, in its order; "ok" if none fails
StoryError(values) ==
    IF ~Truthy(values.title) \/ ~Truthy(values.summary) \/ ~Truthy(values.body)
    THEN "Please fill in all required fields."
    ELSE IF values.level \notin STORY_LEVELS
    THEN "Please choose a valid level (A1-C2)."
    ELSE QuestionsError(values.questions)

\* no request is being handled, except signups waiting for their insert
Idle == job.pc = "idle"

\* no request at all is being handled.  Only POST /signup requests are
\* interleaved with one another (they race on the users table); every other
\* request is handled from its start to its end.
Quiet == Idle /\ \A t \in DOMAIN signups : signups[t].pc = "idle"

\* the handler up to the first database call: upload, read, parse, validate
StoriesReceive(s, form) ==
    LET user == sessions[s].user
        stored == StoredFiles(form.files, Cardinality(disk))
        values == StoryValues(form, stored)
        error == StoryError(values)
        start == [IdleJob EXCEPT !.route = "stories", !.sid = s, !.user = user,
                      !.form = form, !.files = stored,
                      !.before = [stories |-> Len(stories),
                                  questions |-> Len(questions)]]
    IN  /\ Quiet
        /\ requireAdmin(user) = "next"
        /\ autoinc.stories <= MaxStories
        /\ autoinc.questions - 1 + Len(values.questions) <= MaxQuestions
        /\ Cardinality(disk) + Len(form.files) <= MaxFiles
        /\ disk' = disk \cup cleanupFiles(stored)
        /\ IF RejectAt(form.files) # 0
           THEN /\ unlinked' = unlinked \cup cleanupFiles(stored)
                /\ resp' = renderStoryForm(400, "Only MP3 audio files are allowed.",
                                           NoValues)
                /\ job' = [start EXCEPT !.pc = "done", !.failed = "upload"]
           ELSE IF error # "ok"
           THEN /\ unlinked' = unlinked \cup cleanupFiles(stored)
                /\ resp' = renderStoryForm(400, error, values)
                /\ job' = [start EXCEPT !.pc = "done", !.failed = "validation",
                                        !.values = values]
           ELSE /\ unlinked' = unlinked
                /\ resp' = resp
                /\ job' = [start EXCEPT !.pc = "connect", !.values = values]
        /\ UNCHANGED <<users, stories, questions, sessions, autoinc, learning, signups, seen>>

\* a database call either succeeds or throws
DbOutcomes == {"ok", "throws"}

\* the catch block is entered: the next step is connection.rollback()
Caught(step) == [job EXCEPT !.pc = "rollback", !.failed = step]

\* const connection = await db.pool.getConnection(), outside the try block
StoriesConnect(outcome) ==
    /\ job.route = "stories" /\ job.pc = "connect"
    /\ IF outcome = "ok"
       THEN /\ job' = [job EXCEPT !.pc = "begin"]
            /\ resp' = resp
       ELSE /\ job' = [job EXCEPT !.pc = "done", !.failed = "getConnection"]
            /\ resp' = render500
    /\ UNCHANGED <<users, stories, questions, sessions, disk, unlinked, autoinc, learning, signups, seen>>

\* await connection.beginTransaction()
StoriesBeginTransaction(outcome) ==
    /\ job.route = "stories" /\ job.pc = "begin"
    /\ job' = IF outcome = "ok" THEN [job EXCEPT !.pc = "insertStory"]
              ELSE Caught("beginTransaction")
    /\ UNCHANGED <<users, stories, questions, sessions, disk, unlinked, resp,
                   autoinc, learning, signups, seen>>

\* createStory run on the pool instead of the connection: the row is
\* committed at once, outside the transaction
StoriesCreateStoryOnPool(outcome) ==
    /\ job.route = "stories" /\ job.pc = "insertStory"
    /\ IF outcome = "ok"
       THEN /\ job' = [job EXCEPT
                          !.storyId = autoinc.stories,
                          !.k = 1,
                          !.pc = IF Len(job.values.questions) = 0 THEN "commit"
                                 ELSE "insertQuestion"]
            /\ stories' = Append(stories, StoryRow(autoinc.stories, job.values,
                                                   job.user.id))
            /\ autoinc' = [autoinc EXCEPT !.stories = @ + 1]
       ELSE /\ job' = Caught("createStory")
            /\ UNCHANGED <<autoinc, stories>>
    /\ UNCHANGED <<users, questions, sessions, disk, unlinked, resp, learning,
                   signups, seen>>

\* const storyId = await createStory({...}, connection)
StoriesCreateStory(outcome) ==
    /\ job.route = "stories" /\ job.pc = "insertStory"
    /\ IF outcome = "ok"
       THEN /\ job' = [job EXCEPT
                          !.storyId = autoinc.stories,
                          !.tx.stories = Append(@, StoryRow(autoinc.stories,
                                                    job.values, job.user.id)),
                          !.k = 1,
                          !.pc = IF Len(job.values.questions) = 0 THEN "commit"
                                 ELSE "insertQuestion"]
            /\ autoinc' = [autoinc EXCEPT !.stories = @ + 1]
       ELSE /\ job' = Caught("createStory")
            /\ autoinc' = autoinc
    /\ UNCHANGED <<users, stories, questions, sessions, disk, unlinked, resp, learning, signups,
                   seen>>

\* one iteration of the loop over values.questions: await createQuestion({...})
StoriesCreateQuestion(outcome) ==
    /\ job.route = "stories" /\ job.pc = "insertQuestion"
    /\ IF outcome = "ok"
       THEN LET question == job.values.questions[job.k]
                audioPath == AudioPath(question.file)
            IN  /\ job' = [job EXCEPT
                              !.tx.questions = Append(@, QuestionRow(autoinc.questions,
                                  job.storyId, question, audioPath, job.user.id)),
                              !.k = @ + 1,
                              !.pc = IF job.k = Len(job.values.questions)
                                     THEN "commit" ELSE "insertQuestion"]
                /\ autoinc' = [autoinc EXCEPT !.questions = @ + 1]
       ELSE /\ job' = Caught("createQuestion")
            /\ autoinc' = autoinc
    /\ UNCHANGED <<users, stories, questions, sessions, disk, unlinked, resp, learning, signups,
                   seen>>

\* await connection.commit(); res.redirect(`/story/${storyId}`)
StoriesCommit(outcome) ==
    /\ job.route = "stories" /\ job.pc = "commit"
    /\ IF outcome = "ok"
       THEN /\ stories' = stories \o job.tx.stories
            /\ questions' = questions \o job.tx.questions
            /\ job' = [job EXCEPT !.pc = "done", !.tx = NoTx]
            /\ resp' = Response(302, "redirect", <<"/story/", job.storyId>>, "none",
                                NoValues)
       ELSE /\ job' = Caught("commit")
            /\ UNCHANGED <<stories, questions, resp>>
    /\ UNCHANGED <<users, sessions, disk, unlinked, autoinc, learning, signups, seen>>

\* the catch block: await connection.rollback(); cleanupFiles(req.files);
\* renderForm(500).  When the rollback itself throws, the rest of the block
\* is skipped and the error reaches the error-handling middleware; the
\* transaction is then discarded by the server with the connection.
StoriesRollback(outcome) ==
    /\ job.route = "stories" /\ job.pc = "rollback"
    /\ job' = [job EXCEPT !.pc = "done", !.tx = NoTx, !.rollback = outcome]
    /\ IF outcome = "ok"
       THEN /\ unlinked' = unlinked \cup cleanupFiles(job.files)
            /\ resp' = renderStoryForm(500,
                           "An unexpected error occurred while saving the story.",
                           job.values)
       ELSE /\ unlinked' = unlinked
            /\ resp' = render500
    /\ UNCHANGED <<users, stories, questions, sessions, disk, autoinc, learning,
                   signups, seen>>

-----------------------------------------------------------------------------
(* The submissions the model draws for POST /questions *)

\* req.body.answers: an array of strings, one string, or absent
AnswerArray(items) == [array |-> TRUE, items |-> items]
AnswerString(value) == [array |-> FALSE, items |-> <<value>>]

\* type is the content type: "urlencoded" or "multipart"; file is <<>> or
\* one attachment
QuestionForm(type, storyId, prompt, answers, ci, file) ==
    [type |-> type, storyId |-> storyId, prompt |-> prompt, answers |-> answers,
     correctIndex |-> ci, file |-> file]

GoodPrompt == <<" ", "Farbe?">>

QuestionForms ==
    { QuestionForm("urlencoded", id, GoodPrompt, AnswerArray(Answers4), ci, <<>>) :
        id \in {<<"1">>, <<"9">>, <<"0">>, <<"x">>},
        ci \in {<<"2">>, <<"5">>, <<"2", "x">>, Absent} }
    \cup
    { QuestionForm("urlencoded", <<"1">>, p, a, <<"0">>, <<>>) :
        p \in {GoodPrompt, <<" ">>},
        a \in {AnswerArray(Answers4), AnswerArray(Answers3),
               AnswerArray(Answers4 \o <<<<>>>>), AnswerString(<<"Rot">>),
               AnswerString(Absent)} }
    \cup
    { QuestionForm("multipart", id, GoodPrompt, AnswerArray(Answers4), <<"3">>, f) :
        id \in {<<"1">>, <<"9">>},
        f \in {<<>>, <<Attachment(FieldName("audio", 0, 0), "mp3")>>,
               <<Attachment(FieldName("audio", 0, 0), "wav")>>} }

-----------------------------------------------------------------------------
(* POST /questions *)

\* req.body as it is when the handler reads it, before runUpload: the
\* urlencoded parser has filled it in, a multipart body has not been read yet
BodyBeforeUpload(form) ==
    IF form.type = "urlencoded" THEN form
    ELSE [form EXCEPT !.storyId = Absent, !.prompt = Absent,
                      !.answers = AnswerString(Absent), !.correctIndex = Absent]

\* values.answers, padded to four when shorter
QuestionAnswers(answers) ==
    LET read == IF answers.array
                THEN [k \in 1..Len(answers.items) |-> Trim(OrEmpty(answers.items[k]))]
                ELSE <<OrEmpty(answers.items[1])>>
    IN  IF Len(read) < 4 THEN SubSeq(read \o <<<<>>, <<>>, <<>>, <<>>>>, 1, 4)
        ELSE read

QuestionValues(body) ==
    [storyId |-> ParseInt(body.storyId),
     prompt |-> Trim(OrEmpty(body.prompt)),
     answers |-> QuestionAnswers(body.answers),
     correctIndex |-> ParseInt(body.correctIndex)]

\* the checks before the story lookup, in the handler's order
QuestionValuesError(values) ==
    IF values.storyId.nan \/ values.storyId.val <= 0
    THEN "Please choose which story this question belongs to."
    ELSE IF ~Truthy(values.prompt)
    THEN "Please provide the question prompt."
    ELSE IF \E k \in 1..Len(values.answers) : ~Truthy(values.answers[k])
    THEN "All four answer options are required."
    ELSE IF values.correctIndex.nan \/ values.correctIndex.val < 0
            \/ values.correctIndex.val > 3
    THEN "Select which answer is correct."
    ELSE "ok"

\* renderForm of POST /questions
renderQuestionForm(status, error, values) ==
    Response(status, "render", <<"questions/new">>, error,
             [values EXCEPT !.answers = SubSeq(@, 1, 4)])

\* getStoryById
getStoryById(id) ==
    {stories[i] : i \in {j \in 1..Len(stories) : stories[j].id = id}}

\* the handler up to the story lookup: read values, upload, validate
QuestionsReceive(s, form) ==
    LET user == sessions[s].user
        values == QuestionValues(BodyBeforeUpload(form))
        attached == IF form.type = "multipart" THEN form.file ELSE <<>>
        stored == StoredFiles(attached, Cardinality(disk))
        error == QuestionValuesError(values)
        start == [IdleJob EXCEPT !.route = "questions", !.sid = s, !.user = user,
                      !.form = form, !.files = stored, !.values = values,
                      !.before = [stories |-> Len(stories),
                                  questions |-> Len(questions)]]
    IN  /\ Quiet
        /\ requireAdmin(user) = "next"
        /\ autoinc.questions <= MaxQuestions
        /\ Cardinality(disk) + Len(form.file) <= MaxFiles
        /\ disk' = disk \cup cleanupFiles(stored)
        /\ IF RejectAt(attached) # 0
           THEN /\ unlinked' = unlinked \cup cleanupFiles(stored)
                /\ resp' = renderQuestionForm(400, "Only MP3 audio files are allowed.",
                                              values)
                /\ job' = [start EXCEPT !.pc = "done", !.failed = "upload"]
           ELSE IF error # "ok"
           THEN /\ unlinked' = unlinked \cup cleanupFiles(stored)
                /\ resp' = renderQuestionForm(400, error, values)
                /\ job' = [start EXCEPT !.pc = "done", !.failed = "validation"]
           ELSE /\ unlinked' = unlinked
                /\ resp' = resp
                /\ job' = [start EXCEPT !.pc = "getStory"]
        /\ UNCHANGED <<users, stories, questions, sessions, autoinc, learning, signups, seen>>

\* const story = await getStoryById(values.storyId); a query that throws
\* reaches the error-handling middleware
QuestionsGetStory(outcome) ==
    /\ job.route = "questions" /\ job.pc = "getStory"
    /\ IF outcome = "throws"
       THEN /\ job' = [job EXCEPT !.pc = "done", !.failed = "getStoryById"]
            /\ resp' = render500
            /\ unlinked' = unlinked
       ELSE IF getStoryById(job.values.storyId.val) = {}
       THEN /\ job' = [job EXCEPT !.pc = "done", !.failed = "notFound"]
            /\ resp' = renderQuestionForm(400, "The selected story could not be found.",
                                          job.values)
            /\ unlinked' = unlinked \cup cleanupFiles(job.files)
       ELSE /\ job' = [job EXCEPT !.pc = "createQuestion"]
            /\ UNCHANGED <<resp, unlinked>>
    /\ UNCHANGED <<users, stories, questions, sessions, disk, autoinc, learning,
                   signups, seen>>

\* const questionId = await createQuestion({...}) on the pool (autocommit);
\* res.redirect(`/questions/new?created=${questionId}`)
QuestionsCreateQuestion(outcome) ==
    /\ job.route = "questions" /\ job.pc = "createQuestion"
    /\ IF outcome = "ok"
       THEN LET file == IF job.files = <<>> THEN NoFile ELSE job.files[1]
                row == QuestionRow(autoinc.questions, job.values.storyId.val,
                                   job.values, AudioPath(file), job.user.id)
            IN  /\ questions' = Append(questions, row)
                /\ autoinc' = [autoinc EXCEPT !.questions = @ + 1]
                /\ job' = [job EXCEPT !.pc = "done", !.k = row.id]
                /\ resp' = Response(302, "redirect",
                                    <<"/questions/new?created=", row.id>>, "none",
                                    NoValues)
       ELSE /\ job' = [job EXCEPT !.pc = "done", !.failed = "createQuestion"]
            /\ resp' = render500
            /\ UNCHANGED <<questions, autoinc>>
    /\ UNCHANGED <<users, stories, sessions, disk, unlinked, learning, signups,
                   seen>>

-----------------------------------------------------------------------------
(* The list queries of the content repository.  A row's created_at is the
   database default CURRENT_TIMESTAMP of its insert; no handler writes or
   reads it except through ORDER BY. *)

Rows(table) == {table[i] : i \in 1..Len(table)}

\* ORDER BY created_at DESC, id DESC
Newer(a, b) ==
    \/ a.created_at > b.created_at
    \/ a.created_at = b.created_at /\ a.id > b.id

RECURSIVE OrderByCreatedDescIdDesc(_)
OrderByCreatedDescIdDesc(rows) ==
    IF rows = {} THEN <<>>
    ELSE LET first == CHOOSE r \in rows : \A q \in rows \ {r} : Newer(r, q)
         IN  <<first>> \o OrderByCreatedDescIdDesc(rows \ {first})

\* ORDER BY id ASC
RECURSIVE OrderByIdAsc(_)
OrderByIdAsc(rows) ==
    IF rows = {} THEN <<>>
    ELSE LET first == CHOOSE r \in rows : \A q \in rows \ {r} : r.id < q.id
         IN  <<first>> \o OrderByIdAsc(rows \ {first})

\* getAllStories with ORDER BY id ASC in its query
getAllStoriesOldestFirst == OrderByIdAsc(Rows(stories))

getAllStories == OrderByCreatedDescIdDesc(Rows(stories))

getStorySummaries == OrderByCreatedDescIdDesc(Rows(stories))

\* WHERE story_id = ? ORDER BY id ASC
getQuestionsForStory(storyId) ==
    OrderByIdAsc({q \in Rows(questions) : q.story_id = storyId})

getVocabularyEntries == OrderByCreatedDescIdDesc(Rows(learning.vocabulary))

getGrammarTopics == OrderByCreatedDescIdDesc(Rows(learning.grammar))

-----------------------------------------------------------------------------
(* Access policy and the pages behind it *)

Route(method, url) == [method |-> method, url |-> <<url>>]

\* the routes registered with requireAdmin
AdminRoutes ==
    { Route("GET", "/stories/new"), Route("POST", "/stories"),
      Route("GET", "/questions/new"), Route("POST", "/questions"),
      Route("GET", "/learning/vocabulary/new"), Route("POST", "/learning/vocabulary"),
      Route("GET", "/learning/grammar/new"), Route("POST", "/learning/grammar") }

\* the view a GET admin route renders
AdminView(url) ==
    CASE url = <<"/stories/new">> -> <<"stories/new">>
      [] url = <<"/questions/new">> -> <<"questions/new">>
      [] url = <<"/learning/vocabulary/new">> -> <<"learning/vocabulary-new">>
      [] url = <<"/learning/grammar/new">> -> <<"learning/grammar-new">>

Redirect(target) == Response(302, "redirect", target, "none", NoValues)

\* requireAdmin does not call next(): the request ends in the middleware
AdminDenied(s, route) ==
    LET user == sessions[s].user
    IN  /\ Quiet
        /\ route \in AdminRoutes
        /\ requireAdmin(user) # "next"
        /\ IF requireAdmin(user) = "login"
           THEN /\ sessions' = [sessions EXCEPT ![s].returnTo = route.url]
                /\ resp' = Redirect(<<"/login">>)
           ELSE /\ sessions' = sessions
                /\ resp' = Response(403, "render", <<"errors/403">>, "none", NoValues)
        /\ job' = Answered("denied", s)
        /\ UNCHANGED <<users, stories, questions, disk, unlinked, autoinc, learning,
                       signups, seen>>

\* GET /stories/new, /questions/new, /learning/vocabulary/new, /learning/grammar/new
AdminPage(s, route) ==
    /\ Quiet
    /\ route \in AdminRoutes /\ route.method = "GET"
    /\ requireAdmin(sessions[s].user) = "next"
    /\ resp' = Response(200, "render", AdminView(route.url), "none",
                         IF route.url = <<"/questions/new">>
                         THEN [stories |-> getStorySummaries]
                         ELSE NoValues)
    /\ job' = Answered("page", s)
    /\ UNCHANGED <<users, stories, questions, sessions, disk, unlinked, autoinc,
                   learning, signups, seen>>

\* GET /story/:id behind requireAuth
StoryPage(s, id) ==
    LET user == sessions[s].user
    IN  /\ Quiet
        /\ IF requireAuth(user) = "login"
           THEN /\ sessions' = [sessions EXCEPT ![s].returnTo = <<"/story/", id>>]
                /\ resp' = Redirect(<<"/login">>)
           ELSE /\ sessions' = sessions
                /\ resp' = IF getStoryById(id) = {}
                           THEN Response(404, "render", <<"errors/404">>, "none", NoValues)
                           ELSE Response(200, "render", <<"story">>, "none",
                                         [story |-> CHOOSE row \in getStoryById(id) : TRUE,
                                          questions |-> getQuestionsForStory(id)])
        /\ job' = Answered("story", s)
        /\ UNCHANGED <<users, stories, questions, disk, unlinked, autoinc, learning,
                       signups, seen>>

\* GET /: no middleware in front of the handler
HomePage(s) ==
    /\ Quiet
    /\ resp' = Response(200, "render", <<"home">>, "none", getAllStories)
    /\ job' = Answered("home", s)
    /\ UNCHANGED <<users, stories, questions, sessions, disk, unlinked, autoinc,
                   learning, signups, seen>>

\* GET /learning/vocabulary and GET /learning/grammar: no middleware in front
LearningPage(s, kind) ==
    /\ Quiet
    /\ resp' = IF kind = "vocabulary"
               THEN Response(200, "render", <<"learning/vocabulary">>, "none",
                             getVocabularyEntries)
               ELSE Response(200, "render", <<"learning/grammar">>, "none",
                             getGrammarTopics)
    /\ job' = Answered(kind, s)
    /\ UNCHANGED <<users, stories, questions, sessions, disk, unlinked, autoinc,
                   learning, signups, seen>>

-----------------------------------------------------------------------------
(* POST /learning/vocabulary and POST /learning/grammar *)

LearningForms ==
    { [first |-> <<" ", "Mond">>, second |-> <<"moon">>],
      [first |-> <<" ">>, second |-> <<"moon">>],
      [first |-> <<"Mond">>, second |-> Absent] }

\* kind is "vocabulary" (term, translation) or "grammar" (title, explanation)
LearningPost(s, kind, form, outcome) ==
    LET user == sessions[s].user
        values == [first |-> Trim(OrEmpty(form.first)),
                   second |-> Trim(OrEmpty(form.second))]
        view == IF kind = "vocabulary" THEN <<"learning/vocabulary-new">>
                ELSE <<"learning/grammar-new">>
    IN  /\ Quiet
        /\ requireAdmin(user) = "next"
        /\ Len(learning[kind]) < MaxLearning
        /\ IF ~Truthy(values.first) \/ ~Truthy(values.second)
           THEN /\ resp' = Response(400, "render", view,
                                    IF kind = "vocabulary"
                                    THEN "Please provide both the German term and its translation."
                                    ELSE "Please provide a title and explanation for the grammar topic.",
                                    values)
                /\ learning' = learning
           ELSE IF outcome = "throws"
           THEN /\ resp' = render500
                /\ learning' = learning
           ELSE /\ learning' = [learning EXCEPT ![kind] =
                                   Append(@, [id |-> Len(@) + 1, first |-> values.first,
                                              second |-> values.second,
                                              author_id |-> user.id])]
                /\ resp' = Response(200, "render", view, "saved", NoValues)
        /\ job' = Answered("learning", s)
        /\ UNCHANGED <<users, stories, questions, sessions, disk, unlinked, autoinc,
                       signups, seen>>

-----------------------------------------------------------------------------
(* Signup, login, logout *)

Password8 == <<"p", "a", "s", "s", "w", "o", "r", "d">>
OtherPassword == <<"p", "a", "s", "s", "w", "o", "r", "t">>
ShortPassword == <<"p", "w">>

\* bcrypt.hash and bcrypt.compare
bcryptHash(password) == [bcrypt |-> password]
bcryptCompare(password, hash) == hash.bcrypt = password

Emails ==
    { <<" ", "KAREN12389033@GMAIL.COM">>, <<"karen12389033@gmail.com">>,
      <<"reader@example.com", " ">>, <<" ">> }

SignupForms ==
    { [email |-> e, password |-> Password8, confirmPassword |-> Password8] :
        e \in Emails }
    \cup
    { [email |-> <<"reader@example.com">>, password |-> p, confirmPassword |-> c] :
        p \in {ShortPassword, <<>>}, c \in {ShortPassword, Password8} }

LoginForms ==
    { [email |-> e, password |-> p] :
        e \in Emails, p \in {Password8, OtherPassword, <<>>} }

\* findUserByEmail: the rows with that email (at most the first is used)
findUserByEmail(email) ==
    {users[i] : i \in {j \in 1..Len(users) : users[j].email = email}}

\* setLoggedInUser
setLoggedInUser(user) == [id |-> user.id, email |-> normalizeEmail(user.email)]

AuthResponse(status, view, error, email) ==
    Response(status, "render", <<view>>, error, [email |-> email])

SignupSlots == {1, 2}

NoSignup == [pc |-> "idle", sid |-> "none", email |-> <<>>, password |-> <<>>,
             returnTo |-> NoUrl]

\* POST /signup up to and including findUserByEmail
SignupReceive(slot, s, form) ==
    LET normalizedEmail == normalizeEmail(form.email)
        reject(error) ==
            /\ resp' = AuthResponse(400, "signup", error, form.email)
            /\ signups' = signups
            /\ job' = Answered("signup", s)
    IN  /\ Idle
        /\ signups[slot].pc = "idle"
        /\ Len(users) + Cardinality({t \in SignupSlots : signups[t].pc # "idle"})
              < MaxUsers
        /\ IF ~Truthy(normalizedEmail) \/ ~Truthy(form.password)
              \/ ~Truthy(form.confirmPassword)
           THEN reject("Please fill in all fields.")
           ELSE IF form.password # form.confirmPassword
           THEN reject("Passwords do not match.")
           ELSE IF Len(form.password) < 8
           THEN reject("Password must be at least 8 characters.")
           ELSE IF findUserByEmail(normalizedEmail) # {}
           THEN reject("An account already exists for that email.")
           ELSE /\ signups' = [signups EXCEPT ![slot] =
                                  [pc |-> "insert", sid |-> s, email |-> normalizedEmail,
                                   password |-> form.password,
                                   returnTo |-> sessions[s].returnTo]]
                /\ UNCHANGED <<resp, job>>
        /\ UNCHANGED <<users, stories, questions, sessions, disk, unlinked, autoinc,
                       learning, seen>>

\* the INSERT INTO users of POST /signup and what follows it; the table's
\* UNIQUE key on email makes the insert throw for an email that is present
SignupInsert(slot) ==
    LET p == signups[slot]
        row == [id |-> autoinc.users, email |-> p.email,
                password_hash |-> bcryptHash(p.password)]
    IN  /\ Idle
        /\ p.pc = "insert"
        /\ signups' = [signups EXCEPT ![slot] = NoSignup]
        /\ IF findUserByEmail(p.email) # {}
           THEN /\ resp' = render500
                /\ UNCHANGED <<users, sessions, autoinc>>
           ELSE /\ users' = Append(users, row)
                /\ autoinc' = [autoinc EXCEPT !.users = @ + 1]
                /\ sessions' = [sessions EXCEPT ![p.sid] =
                                   [user |-> setLoggedInUser(row), returnTo |-> NoUrl]]
                /\ resp' = Redirect(IF p.returnTo # NoUrl THEN p.returnTo ELSE <<"/">>)
        /\ job' = Answered("signup", p.sid)
        /\ UNCHANGED <<stories, questions, disk, unlinked, learning, seen>>

\* POST /login telling a wrong password apart from an unknown email
LoginTelling(s, form) ==
    LET normalizedEmail == normalizeEmail(form.email)
        found == findUserByEmail(normalizedEmail)
        user == CHOOSE u \in found : \A v \in found : u.id <= v.id
        fail(error) ==
            /\ resp' = AuthResponse(400, "login", error, form.email)
            /\ seen' = seen \cup {[known |-> found # {}, status |-> 400,
                                    error |-> error]}
            /\ sessions' = sessions
    IN  /\ Quiet
        /\ IF ~Truthy(normalizedEmail) \/ ~Truthy(form.password)
           THEN /\ resp' = AuthResponse(400, "login",
                                        "Please enter your email and password.", form.email)
                /\ UNCHANGED <<seen, sessions>>
           ELSE IF found = {}
           THEN fail("Email or password is incorrect.")
           ELSE IF ~bcryptCompare(form.password, user.password_hash)
           THEN fail("Password is incorrect.")
           ELSE /\ sessions' = [sessions EXCEPT ![s] =
                                   [user |-> setLoggedInUser(user), returnTo |-> NoUrl]]
                /\ resp' = Redirect(IF sessions[s].returnTo # NoUrl
                                    THEN sessions[s].returnTo ELSE <<"/">>)
                /\ seen' = seen
        /\ job' = Answered("login", s)
        /\ UNCHANGED <<users, stories, questions, disk, unlinked, autoinc, learning,
                       signups>>

\* POST /login
Login(s, form) ==
    LET normalizedEmail == normalizeEmail(form.email)
        found == findUserByEmail(normalizedEmail)
        user == CHOOSE u \in found : \A v \in found : u.id <= v.id
        fail(error) ==
            /\ resp' = AuthResponse(400, "login", error, form.email)
            /\ seen' = seen \cup {[known |-> found # {}, status |-> 400,
                                    error |-> error]}
            /\ sessions' = sessions
    IN  /\ Quiet
        /\ IF ~Truthy(normalizedEmail) \/ ~Truthy(form.password)
           THEN /\ resp' = AuthResponse(400, "login",
                                        "Please enter your email and password.", form.email)
                /\ UNCHANGED <<seen, sessions>>
           ELSE IF found = {}
           THEN fail("Email or password is incorrect.")
           ELSE IF ~bcryptCompare(form.password, user.password_hash)
           THEN fail("Email or password is incorrect.")
           ELSE /\ sessions' = [sessions EXCEPT ![s] =
                                   [user |-> setLoggedInUser(user), returnTo |-> NoUrl]]
                /\ resp' = Redirect(IF sessions[s].returnTo # NoUrl
                                    THEN sessions[s].returnTo ELSE <<"/">>)
                /\ seen' = seen
        /\ job' = Answered("login", s)
        /\ UNCHANGED <<users, stories, questions, disk, unlinked, autoinc, learning,
                       signups>>

NewSession == [user |-> NoUser, returnTo |-> NoUrl]

\* POST /logout: req.session.destroy
Logout(s) ==
    /\ Quiet
    /\ sessions' = [sessions EXCEPT ![s] = NewSession]
    /\ resp' = Redirect(<<"/">>)
    /\ job' = Answered("logout", s)
    /\ UNCHANGED <<users, stories, questions, disk, unlinked, autoinc, learning,
                   signups, seen>>

-----------------------------------------------------------------------------
(* The server *)

\* the response has been sent: the request is over
EndRequest ==
    /\ job.pc = "done"
    /\ job' = IdleJob
    /\ resp' = NoResponse
    /\ UNCHANGED <<users, stories, questions, sessions, disk, unlinked, autoinc,
                   learning, signups, seen>>

\* The server after start-up: empty tables, a visitor without identity.
InitAuth ==
    /\ users = <<>>
    /\ stories = <<>>
    /\ questions = <<>>
    /\ sessions = [s \in SessionIds |-> NewSession]
    /\ job = IdleJob
    /\ disk = {}
    /\ unlinked = {}
    /\ resp = NoResponse
    /\ autoinc = [users |-> 1, stories |-> 1, questions |-> 1]
    /\ learning = [vocabulary |-> <<>>, grammar |-> <<>>]
    /\ signups = [t \in SignupSlots |-> NoSignup]
    /\ seen = {}

\* Signup, login, logout and the access policy.
NextAuth ==
    \/ \E s \in SessionIds, route \in AdminRoutes : AdminDenied(s, route)
    \/ \E s \in SessionIds, route \in AdminRoutes : AdminPage(s, route)
    \/ \E s \in SessionIds, id \in 1..MaxStories : StoryPage(s, id)
    \/ \E s \in SessionIds : HomePage(s)
    \/ \E t \in SignupSlots, s \in SessionIds, form \in SignupForms :
          SignupReceive(t, s, form)
    \/ \E t \in SignupSlots : SignupInsert(t)
    \/ \E s \in SessionIds, form \in LoginForms : Login(s, form)
    \/ \E s \in SessionIds : Logout(s)
    \/ EndRequest

SpecAuth == InitAuth /\ [][NextAuth]_vars

AdminUser == [id |-> 1, email |-> ADMIN_EMAIL, password_hash |-> bcryptHash(Password8)]
ReaderUser == [id |-> 2, email |-> <<"reader@example.com">>,
               password_hash |-> bcryptHash(Password8)]

\* The authoring workflows start where SpecAuth can bring the server: the
\* admin and a reader have signed up, the admin is logged in in session s1,
\* and session s2 is logged out or logged in as the reader.
Init ==
    /\ users = <<AdminUser, ReaderUser>>
    /\ stories = <<>>
    /\ questions = <<>>
    /\ \E other \in {NewSession,
                     [user |-> setLoggedInUser(ReaderUser), returnTo |-> NoUrl]} :
           sessions = [s \in SessionIds |->
                          IF s = "s1"
                          THEN [user |-> setLoggedInUser(AdminUser), returnTo |-> NoUrl]
                          ELSE other]
    /\ job = IdleJob
    /\ disk = {}
    /\ unlinked = {}
    /\ resp = NoResponse
    /\ autoinc = [users |-> 3, stories |-> 1, questions |-> 1]
    /\ learning = [vocabulary |-> <<>>, grammar |-> <<>>]
    /\ signups = [t \in SignupSlots |-> NoSignup]
    /\ seen = {}

AuthoringRoutes == {Route("POST", "/stories"), Route("POST", "/questions")}

\* POST /stories and POST /questions behind requireAdmin.
Next ==
    \/ \E s \in SessionIds, form \in StoryForms : StoriesReceive(s, form)
    \/ \E outcome \in DbOutcomes : StoriesConnect(outcome)
    \/ \E outcome \in DbOutcomes : StoriesBeginTransaction(outcome)
    \/ \E outcome \in DbOutcomes : StoriesCreateStory(outcome)
    \/ \E outcome \in DbOutcomes : StoriesCreateQuestion(outcome)
    \/ \E outcome \in DbOutcomes : StoriesCommit(outcome)
    \/ \E outcome \in DbOutcomes : StoriesRollback(outcome)
    \/ \E s \in SessionIds, form \in QuestionForms : QuestionsReceive(s, form)
    \/ \E outcome \in DbOutcomes : QuestionsGetStory(outcome)
    \/ \E outcome \in DbOutcomes : QuestionsCreateQuestion(outcome)
    \/ \E s \in SessionIds, route \in AuthoringRoutes : AdminDenied(s, route)
    \/ EndRequest

Spec == Init /\ [][Next]_vars

-----------------------------------------------------------------------------
(* The pages that list stored rows, over every content of the tables *)

\* the timestamps the database gave to the rows of a table after up to n
\* inserts, by id (concurrent inserts and clock steps make any order of
\* timestamps possible)
Timestamps(n) == UNION { [1..len -> 1..MaxTime] : len \in 0..n }

ListedValues ==
    [title |-> <<"Der Mond">>, level |-> <<"A1">>, summary |-> <<"Nacht">>,
     body |-> <<"Text">>, questions |-> <<>>]

ListedQuestion ==
    [prompt |-> <<"Farbe?">>, answers |-> <<<<"Rot">>, <<"Blau">>, <<"Gelb">>, <<"Weiss">>>>,
     correctIndex |-> Num(1)]

StoredStories ==
    { [i \in 1..Len(at) |-> StoryRow(i, ListedValues, 1) @@ [created_at |-> at[i]]] :
        at \in Timestamps(MaxStories) }

\* every question row references a stored story
StoredQuestions(nStories) ==
    UNION { { [i \in 1..Len(at) |->
                 QuestionRow(i, of[i], ListedQuestion, <<>>, 1) @@ [created_at |-> at[i]]] :
              of \in [1..Len(at) -> 1..nStories] } :
            at \in Timestamps(MaxQuestions) }

StoredLearning ==
    { [i \in 1..Len(at) |->
          [id |-> i, first |-> <<"Mond">>, second |-> <<"moon">>, author_id |-> 1,
           created_at |-> at[i]]] :
        at \in Timestamps(MaxLearning) }

\* the admin is logged in in session s1; session s2 has no identity
InitLists ==
    /\ users = <<AdminUser, ReaderUser>>
    /\ stories \in StoredStories
    /\ questions \in StoredQuestions(Len(stories))
    /\ sessions = [s \in SessionIds |->
                      IF s = "s1"
                      THEN [user |-> setLoggedInUser(AdminUser), returnTo |-> NoUrl]
                      ELSE NewSession]
    /\ job = IdleJob
    /\ disk = {}
    /\ unlinked = {}
    /\ resp = NoResponse
    /\ autoinc = [users |-> 3, stories |-> Len(stories) + 1,
                  questions |-> Len(questions) + 1]
    /\ \E t \in StoredLearning, u \in StoredLearning :
           learning = [vocabulary |-> t, grammar |-> u]
    /\ signups = [t \in SignupSlots |-> NoSignup]
    /\ seen = {}

StoryCreationRoutes == {Route("GET", "/stories/new"), Route("POST", "/stories")}

NextLists ==
    \/ \E s \in SessionIds : HomePage(s)
    \/ \E s \in SessionIds : AdminPage(s, Route("GET", "/questions/new"))
    \/ \E s \in SessionIds, id \in 1..MaxStories : StoryPage(s, id)
    \/ \E s \in SessionIds, kind \in {"vocabulary", "grammar"} : LearningPage(s, kind)
    \/ \E s \in SessionIds, route \in StoryCreationRoutes : AdminDenied(s, route)
    \/ EndRequest

SpecLists == InitLists /\ [][NextLists]_vars

-----------------------------------------------------------------------------
(* Properties of POST /stories *)

\* the rows the tables have gained since the request began
NewStories == SubSeq(stories, job.before.stories + 1, Len(stories))
NewQuestions == SubSeq(questions, job.before.questions + 1, Len(questions))

StoriesDone == job.route = "stories" /\ job.pc = "done"

\* a question with a prompt, four answers and a correct index in 0..3
WellFormed(question) ==
    /\ question.prompt # <<>>
    /\ \A k \in 1..4 : question.answers[k] # <<>>
    /\ ~question.correctIndex.nan
    /\ question.correctIndex.val \in 0..3

\* the submission passed the upload step and its story fields and surviving
\* questions are valid
ValidSubmission(form, files) ==
    /\ Len(files) = Len(form.files)
    /\ Trim(OrEmpty(form.title)) # <<>>
    /\ Trim(OrEmpty(form.summary)) # <<>>
    /\ Trim(OrEmpty(form.body)) # <<>>
    /\ ToUpperCase(Trim(OrEmpty(form.level))) \in STORY_LEVELS
    /\ LET surviving == parseStoryQuestions(form.fields, files)
       IN  \A i \in 1..Len(surviving) : WellFormed(surviving[i])

DbFailures ==
    {"getConnection", "beginTransaction", "createStory", "createQuestion", "commit",
     "getStoryById"}

\* C1: a valid POST /stories submission with N surviving well-formed
\* questions (N >= 0) during which no database call fails leaves exactly one
\* new story row and exactly N new question rows, every question row
\* referencing the new story's id and all N+1 rows carrying the id of the
\* submitting user as author.
C1_OneStoryAndNQuestions ==
    (StoriesDone /\ ValidSubmission(job.form, job.files) /\ job.failed \notin DbFailures)
    => LET n == Len(parseStoryQuestions(job.form.fields, job.files))
           author == sessions[job.sid].user.id
       IN  /\ Len(NewStories) = 1
           /\ Len(NewQuestions) = n
           /\ NewStories[1].author_id = author
           /\ \A i \in 1..n : /\ NewQuestions[i].story_id = NewStories[1].id
                              /\ NewQuestions[i].author_id = author

C1_Witness ==
    /\ StoriesDone /\ ValidSubmission(job.form, job.files) /\ job.failed = "none"
    /\ Len(NewStories) = 1
    /\ Len(NewQuestions) = 2
    /\ NewQuestions[2].story_id = NewStories[1].id
    /\ NewQuestions[2].id # NewStories[1].id

\* C2: POST /stories is all-or-nothing.  While the request is in flight the
\* tables show none of its rows; once it has ended, either its story row and
\* all of its surviving question rows are committed or none of its rows is,
\* and none is whenever the upload was rejected, a validation failed or a
\* database call (an insert, the commit, ...) threw.
C2_AllOrNothing ==
    job.route = "stories"
    => /\ job.pc # "done" => (NewStories = <<>> /\ NewQuestions = <<>>)
       /\ job.pc = "done" =>
            \/ NewStories = <<>> /\ NewQuestions = <<>>
            \/ /\ Len(NewStories) = 1
               /\ Len(NewQuestions) = Len(job.values.questions)
               /\ \A i \in 1..Len(NewQuestions) :
                      NewQuestions[i].story_id = NewStories[1].id
       /\ (job.pc = "done" /\ job.failed # "none")
            => (NewStories = <<>> /\ NewQuestions = <<>>)

\* the second question's insert threw after the story and the first question
\* had been inserted in the transaction
C2_Witness ==
    /\ StoriesDone
    /\ job.failed = "createQuestion"
    /\ job.k = 2
    /\ job.storyId # 0
    /\ NewStories = <<>> /\ NewQuestions = <<>>

\* C3 (as claimed): on every exit of POST /stories other than a successful
\* commit, fs.unlink has been requested for every file the upload step wrote
\* for the submission.
C3_FilesCleanedOnEveryFailure ==
    (StoriesDone /\ job.failed # "none")
    => \A i \in 1..Len(job.files) : job.files[i].filename \in unlinked

-----------------------------------------------------------------------------
(* Properties of the correct index *)

\* s is the decimal notation of an integer: an optional sign and one or
\* more digits, with blanks allowed around it
IsIntegerText(s) ==
    LET t == Trim(s)
        u == IF t # <<>> /\ Head(t) \in {"-", "+"} THEN Tail(t) ELSE t
    IN  u # <<>> /\ \A i \in 1..Len(u) : u[i] \in Digits

\* a submitted correct-index value that is non-numeric or outside 0..3
BadIndexText(s) ==
    s # Absent /\ (~IsIntegerText(s) \/ ParseInt(s).val \notin 0..3)

\* question i of a story form has a prompt or an answer in it
Filled(fields, i) ==
    \E j \in 1..Len(fields) :
        /\ fields[j].name.index = i
        /\ fields[j].name.kind \in {"prompt", "answers"}
        /\ Trim(fields[j].value) # <<>>

\* the submission being answered carries such a value for one of its questions
BadIndexSubmitted ==
    \/ /\ job.route = "stories"
       /\ \E j \in 1..Len(job.form.fields) :
              /\ job.form.fields[j].name.kind = "correctIndex"
              /\ BadIndexText(job.form.fields[j].value)
              /\ Filled(job.form.fields, job.form.fields[j].name.index)
    \/ /\ job.route = "questions"
       /\ BadIndexText(job.form.correctIndex)

\* C4 (as claimed): through POST /stories and POST /questions, a question
\* whose correct-index value is non-numeric or an integer outside 0..3 is
\* rejected with HTTP 400 and not persisted (no database call failing), and
\* every question row has correct_index in 0..3.
C4_BadIndexRejected ==
    /\ (job.pc = "done" /\ BadIndexSubmitted /\ job.failed \notin DbFailures)
         => (resp.status = 400 /\ NewQuestions = <<>> /\ NewStories = <<>>)
    /\ \A i \in 1..Len(questions) :
           ~questions[i].correct_index.nan /\ questions[i].correct_index.val \in 0..3

-----------------------------------------------------------------------------
(* parseStoryQuestions on its own: every form of ParseForms is parsed *)

ParseIndices == {0, 2, 5}

\* what a form sends for question i
QuestionShapes(i) ==
    { GoodFields(i, <<"1">>),
      BlankFields(i),
      <<Entry(FieldName("prompt", i, 0), <<"Farbe?">>)>>,
      <<Entry(FieldName("answers", i, 2), <<" ", "Gruen">>),
        Entry(FieldName("answers", i, 4), <<"Lila">>)>>,
      <<Entry(FieldName("correctIndex", i, 0), <<"3">>)>> }

\* the question field blocks of up to MaxParseQuestions distinct indices, in
\* any order of the indices
RECURSIVE QuestionBlocks(_, _)
QuestionBlocks(n, used) ==
    IF n = 0 THEN {<<>>}
    ELSE {<<>>} \cup
         UNION { { block \o rest : block \in QuestionShapes(i),
                                   rest \in QuestionBlocks(n - 1, used \cup {i}) } :
                 i \in ParseIndices \ used }

Reverse(seq) == [i \in 1..Len(seq) |-> seq[Len(seq) + 1 - i]]

StoredAudio(i, name) ==
    [fieldname |-> FieldName("audio", i, 0), filename |-> name, ext |-> "mp3"]

ParseFiles ==
    { <<>>, <<StoredAudio(0, 1)>>, <<StoredAudio(7, 1)>>,
      <<StoredAudio(2, 1), StoredAudio(2, 2)>>,
      <<[fieldname |-> FieldName("other", 0, 0), filename |-> 1, ext |-> "mp3"]>> }

ParseForms ==
    { StoryForm(<<>>, <<>>, <<>>, <<>>, fields, files) :
        fields \in QuestionBlocks(MaxParseQuestions, {})
                     \cup {Reverse(b) : b \in QuestionBlocks(MaxParseQuestions, {})},
        files \in ParseFiles }

InitParse ==
    /\ users = <<>>
    /\ stories = <<>>
    /\ questions = <<>>
    /\ sessions = [s \in SessionIds |-> NewSession]
    /\ \E form \in ParseForms :
           job = [IdleJob EXCEPT !.route = "parse", !.pc = "parse", !.form = form,
                                 !.files = form.files]
    /\ disk = {}
    /\ unlinked = {}
    /\ resp = NoResponse
    /\ autoinc = [users |-> 1, stories |-> 1, questions |-> 1]
    /\ learning = [vocabulary |-> <<>>, grammar |-> <<>>]
    /\ signups = [t \in SignupSlots |-> NoSignup]
    /\ seen = {}

\* values.questions = parseStoryQuestions(req.body, req.files), then the
\* validation loop over the result
Parse ==
    /\ job.pc = "parse"
    /\ LET qs == parseStoryQuestions(job.form.fields, job.files)
       IN  job' = [job EXCEPT !.pc = "parsed", !.values.questions = qs,
                              !.failed = QuestionsError(qs)]
    /\ UNCHANGED <<users, stories, questions, sessions, disk, unlinked, resp,
                   autoinc, learning, signups, seen>>

SpecParse == InitParse /\ [][Parse]_vars

\* The reference: the non-blank candidate records in ascending index order.
RefIndices(body, files) ==
    {body[j].name.index : j \in {n \in 1..Len(body) :
         body[n].name.kind \in {"prompt", "correctIndex", "answers"}}}
    \cup {files[j].fieldname.index : j \in {n \in 1..Len(files) :
         files[n].fieldname.kind = "audio"}}

\* the value sent under a field name, <<>> when the name is not sent
RefValue(body, name) ==
    IF \E j \in 1..Len(body) : body[j].name = name
    THEN (CHOOSE e \in {body[j] : j \in 1..Len(body)} : e.name = name).value
    ELSE <<>>

RefCandidate(body, files, i) ==
    LET audio == {n \in 1..Len(files) : files[n].fieldname = FieldName("audio", i, 0)}
    IN  [prompt |-> Trim(RefValue(body, FieldName("prompt", i, 0))),
         answers |-> [k \in 1..4 |-> Trim(RefValue(body, FieldName("answers", i, k - 1)))],
         correctIndex |->
             IF \E j \in 1..Len(body) : body[j].name = FieldName("correctIndex", i, 0)
             THEN ParseInt(RefValue(body, FieldName("correctIndex", i, 0)))
             ELSE Num(0),
         file |-> IF audio = {} THEN NoFile
                  ELSE files[CHOOSE n \in audio : \A m \in audio : m <= n]]

RefNonBlank(body, files) ==
    {i \in RefIndices(body, files) :
        LET c == RefCandidate(body, files, i)
        IN  c.prompt # <<>> \/ \E k \in 1..4 : c.answers[k] # <<>>}

\* C5: parseStoryQuestions returns exactly the candidates with a non-empty
\* trimmed prompt or a non-empty trimmed answer, in ascending order of their
\* index, whatever the order of the fields and the gaps between the indices;
\* an all-blank candidate is left out and makes the validation loop report
\* nothing.
C5_ParseIsSortedNonBlank ==
    job.pc = "parsed"
    => LET body == job.form.fields
           files == job.files
           kept == RefNonBlank(body, files)
           result == job.values.questions
       IN  /\ Len(result) = Cardinality(kept)
           /\ \A i \in kept :
                  result[Cardinality({j \in kept : j < i}) + 1]
                      = RefCandidate(body, files, i)
           /\ (\A i \in kept : WellFormed(RefCandidate(body, files, i)))
                  => job.failed = "ok"

\* fields sent for index 2, then 0, then 5: the result lists the questions
\* 0, 2, 5
C5_Witness ==
    /\ job.pc = "parsed"
    /\ Len(job.values.questions) = 3
    /\ job.form.fields[1].name.index = 2
    /\ job.form.fields[Len(job.form.fields)].name.index = 5
    /\ job.values.questions = [n \in 1..3 |->
           RefCandidate(job.form.fields, job.files, <<0, 2, 5>>[n])]
    /\ job.failed = "ok"

-----------------------------------------------------------------------------
(* Properties of the access policy and of login *)

ContentTables == <<stories, questions, learning, disk, unlinked>>

\* a request of session s to the admin-only route is handled in this step
AdminRequest(s, route) == AdminDenied(s, route) \/ AdminPage(s, route)

\* a POST /login or POST /signup of session s succeeds in this step
LoggedIn(s) ==
    \/ \E form \in LoginForms : Login(s, form) /\ resp'.status = 302
    \/ \E t \in SignupSlots : SignupInsert(t) /\ signups[t].sid = s /\ resp'.status = 302

\* C6: a request to an admin-only route without session identity is
\* redirected to /login and its URL is remembered in the session; with an
\* identity whose email is not the admin's it gets HTTP 403, no redirect; in
\* both cases the route's handler does not run (nothing is rendered for the
\* route, no table changes).  The remembered URL stays until a login, signup
\* or logout of that session or a later such redirect, and a successful login
\* or signup of the session redirects to it and clears it.
C6_AdminGate ==
    [][\A s \in SessionIds :
        /\ \A route \in AdminRoutes :
              AdminRequest(s, route) =>
                /\ sessions[s].user = NoUser =>
                     /\ resp' = Redirect(<<"/login">>)
                     /\ sessions'[s].returnTo = route.url
                     /\ sessions'[s].user = NoUser
                     /\ UNCHANGED ContentTables
                /\ (sessions[s].user # NoUser /\ sessions[s].user.email # ADMIN_EMAIL) =>
                     /\ resp'.status = 403
                     /\ resp'.kind = "render"
                     /\ resp'.target = <<"errors/403">>
                     /\ sessions' = sessions
                     /\ UNCHANGED ContentTables
        /\ (sessions[s].returnTo # NoUrl /\ sessions'[s].returnTo # sessions[s].returnTo) =>
              \/ LoggedIn(s)
              \/ Logout(s)
              \/ \E route \in AdminRoutes : AdminDenied(s, route)
              \/ \E id \in 1..MaxStories : StoryPage(s, id)
        /\ (LoggedIn(s) /\ sessions[s].returnTo # NoUrl) =>
              /\ resp'.kind = "redirect"
              /\ resp'.target = sessions[s].returnTo
              /\ sessions'[s].returnTo = NoUrl
              /\ sessions'[s].user # NoUser
      ]_vars

\* a login has just been redirected to the admin-only URL the session
\* remembered when the anonymous request for it was turned away
C6_Witness ==
    /\ job.route = "login" /\ job.pc = "done"
    /\ resp = Redirect(<<"/learning/grammar/new">>)
    /\ sessions[job.sid].user # NoUser
    /\ sessions[job.sid].returnTo = NoUrl

\* C7: a POST /login with a non-empty email and password that names an email
\* without user row and one that names an existing email with a wrong
\* password get the same status code and the same error message, and neither
\* changes the session's identity.
C7_SameLoginFailure ==
    /\ [](\A a, b \in seen : a.status = b.status /\ a.error = b.error)
    /\ [][\A s \in SessionIds, form \in LoginForms :
            (/\ Login(s, form)
             /\ normalizeEmail(form.email) # <<>> /\ form.password # <<>>
             /\ \/ findUserByEmail(normalizeEmail(form.email)) = {}
                \/ \E u \in findUserByEmail(normalizeEmail(form.email)) :
                       u.password_hash # bcryptHash(form.password))
            => (sessions' = sessions /\ resp'.status = 400 /\ resp'.kind = "render")
       ]_vars

\* both kinds of failed login have been answered
C7_Witness ==
    /\ \E a \in seen : a.known
    /\ \E b \in seen : ~b.known

-----------------------------------------------------------------------------
(* Properties of the forms re-rendered and of POST /questions *)

\* C8 (as claimed): whenever POST /stories fails the upload step or a
\* validation, the form is rendered again with the error message and with
\* the title, summary and body exactly as submitted, untrimmed.
C8_FormRepopulatedUntrimmed ==
    (StoriesDone /\ job.failed \in {"upload", "validation"})
    => /\ resp.status = 400
       /\ resp.kind = "render" /\ resp.target = <<"stories/new">>
       /\ resp.error # "none"
       /\ resp.values.title = OrEmpty(job.form.title)
       /\ resp.values.summary = OrEmpty(job.form.summary)
       /\ resp.values.body = OrEmpty(job.form.body)

QuestionsDone == job.route = "questions" /\ job.pc = "done"

\* the fields of a POST /questions form other than the story id are valid:
\* a prompt, four answers, a correct index in 0..3, no attachment or an MP3
\* in a multipart form
ValidQuestionFields(form) ==
    /\ form.prompt # Absent /\ Trim(form.prompt) # <<>>
    /\ form.answers.array /\ Len(form.answers.items) = 4
    /\ \A k \in 1..4 : Trim(form.answers.items[k]) # <<>>
    /\ form.correctIndex # Absent /\ IsIntegerText(form.correctIndex)
    /\ ParseInt(form.correctIndex).val \in 0..3
    /\ form.file # <<>> => (form.type = "multipart" /\ form.file[1].ext = "mp3")

\* the story id of the form is a positive integer
PositiveStoryId(form) ==
    form.storyId # Absent /\ IsIntegerText(form.storyId) /\ ParseInt(form.storyId).val > 0

StoryIds == {stories[i].id : i \in 1..Len(stories)}

\* C9 (as claimed): a POST /questions submission that names an existing
\* story, a prompt, four answers and a correct index in 0..3, url-encoded or
\* multipart with an MP3, persists exactly one new question row referencing
\* that story (with the audio path when a file was attached), and the
\* response carries the id of the new question.
C9_QuestionSaved ==
    (/\ QuestionsDone
     /\ ValidQuestionFields(job.form)
     /\ PositiveStoryId(job.form)
     /\ ParseInt(job.form.storyId).val \in StoryIds
     /\ job.failed \notin DbFailures)
    => /\ Len(NewQuestions) = 1
       /\ NewQuestions[1].story_id = ParseInt(job.form.storyId).val
       /\ job.form.file # <<>> =>
              NewQuestions[1].audio_path = <<"uploads/questions", job.files[1].filename>>
       /\ resp = Redirect(<<"/questions/new?created=", NewQuestions[1].id>>)

\* C10 (as claimed): a POST /questions submission whose story id references
\* no existing story is answered with the not-found validation error,
\* persists no question row and requests deletion of the uploaded audio file
\* if one was written; no question row references a story id without story
\* row.
C10_UnknownStoryRejected ==
    /\ (/\ QuestionsDone
        /\ ValidQuestionFields(job.form)
        /\ PositiveStoryId(job.form)
        /\ ParseInt(job.form.storyId).val \notin StoryIds
        /\ job.failed \notin DbFailures)
       => /\ resp.status = 400
          /\ resp.error = "The selected story could not be found."
          /\ NewQuestions = <<>>
          /\ \A i \in 1..Len(job.files) : job.files[i].filename \in unlinked
    /\ \A i \in 1..Len(questions) : questions[i].story_id \in StoryIds

-----------------------------------------------------------------------------
(* Accounts and content together: signup, login, logout and the four routes
   that insert content rows *)

AccountEmails == {<<" ", "KAREN12389033@GMAIL.COM">>, <<"reader@example.com", " ">>}

AccountSignups ==
    { [email |-> e, password |-> Password8, confirmPassword |-> Password8] :
        e \in AccountEmails }

AccountLogins == { [email |-> e, password |-> Password8] : e \in AccountEmails }

ContentStoryForms ==
    { StoryForm(GoodTitle, <<"a1">>, <<"S">>, <<"B">>, f, <<>>) :
        f \in {<<>>, GoodFields(0, <<"1">>)} }

ContentQuestionForms ==
    { QuestionForm("urlencoded", <<"1">>, GoodPrompt, AnswerArray(Answers4), <<"2">>, <<>>) }

ContentRoutes ==
    { Route("POST", "/stories"), Route("POST", "/questions"),
      Route("POST", "/learning/vocabulary"), Route("POST", "/learning/grammar") }

ContentRows ==
    Len(stories) + Len(questions) + Len(learning.vocabulary) + Len(learning.grammar)

\* a submission is taken while fewer than MaxContent content rows are stored
Room == ContentRows < MaxContent

NextAdmin ==
    \/ \E t \in SignupSlots, s \in SessionIds, form \in AccountSignups :
          SignupReceive(t, s, form)
    \/ \E t \in SignupSlots : SignupInsert(t)
    \/ \E s \in SessionIds, form \in AccountLogins : Login(s, form)
    \/ \E s \in SessionIds : Logout(s)
    \/ \E s \in SessionIds, route \in ContentRoutes : AdminDenied(s, route)
    \/ \E s \in SessionIds, form \in ContentStoryForms : Room /\ StoriesReceive(s, form)
    \/ \E outcome \in DbOutcomes : StoriesConnect(outcome)
    \/ \E outcome \in DbOutcomes : StoriesBeginTransaction(outcome)
    \/ \E outcome \in DbOutcomes : StoriesCreateStory(outcome)
    \/ \E outcome \in DbOutcomes : StoriesCreateQuestion(outcome)
    \/ \E outcome \in DbOutcomes : StoriesCommit(outcome)
    \/ \E outcome \in DbOutcomes : StoriesRollback(outcome)
    \/ \E s \in SessionIds, form \in ContentQuestionForms :
          Room /\ QuestionsReceive(s, form)
    \/ \E outcome \in DbOutcomes : QuestionsGetStory(outcome)
    \/ \E outcome \in DbOutcomes : QuestionsCreateQuestion(outcome)
    \/ \E s \in SessionIds, kind \in {"vocabulary", "grammar"}, form \in LearningForms,
          outcome \in DbOutcomes : Room /\ LearningPost(s, kind, form, outcome)
    \/ EndRequest

SpecAdmin == InitAuth /\ [][NextAdmin]_vars

-----------------------------------------------------------------------------
(* One question payload given to both workflows: as the fields of question 0
   of a POST /stories form and as the fields of a POST /questions form *)

Payload(prompt, answers, ci) == [prompt |-> prompt, answers |-> answers, correctIndex |-> ci]

PayloadAnswers ==
    { <<>>, <<<<"Rot">>>>, Answers3, Answers4, Answers4 \o <<<<"Lila">>>>,
      <<<<"Rot">>, <<" ">>, <<"Gelb">>, <<"Weiss">>>> }

Payloads ==
    { Payload(p, a, ci) :
        p \in {GoodPrompt, <<" ">>, Absent},
        a \in PayloadAnswers,
        ci \in {Absent, <<"2">>, <<"5">>, <<"x">>, <<"2", "x">>, <<"-", "1">>} }

\* questions[0][prompt], questions[0][answers][k], questions[0][correctIndex];
\* a field that is absent is not sent
StoryFieldsOf(payload) ==
    (IF payload.prompt = Absent THEN <<>>
     ELSE <<Entry(FieldName("prompt", 0, 0), payload.prompt)>>)
    \o [k \in 1..Len(payload.answers) |->
           Entry(FieldName("answers", 0, k - 1), payload.answers[k])]
    \o (IF payload.correctIndex = Absent THEN <<>>
        ELSE <<Entry(FieldName("correctIndex", 0, 0), payload.correctIndex)>>)

\* storyId, prompt, answers, correctIndex of a urlencoded form: answers is
\* undefined when none is sent, a string when one is, an array otherwise
QuestionFormOf(payload) ==
    QuestionForm("urlencoded", <<"1">>, payload.prompt,
                 CASE Len(payload.answers) = 0 -> AnswerString(Absent)
                   [] Len(payload.answers) = 1 -> AnswerString(payload.answers[1])
                   [] OTHER -> AnswerArray(payload.answers),
                 payload.correctIndex, <<>>)

\* the story workflow keeps the payload as a question and its validation
\* loop passes it
StoryWorkflowAccepts(payload) ==
    LET qs == parseStoryQuestions(StoryFieldsOf(payload), <<>>)
    IN  Len(qs) = 1 /\ QuestionsError(qs) = "ok"

\* the checks of POST /questions pass
QuestionWorkflowAccepts(payload) ==
    QuestionValuesError(QuestionValues(BodyBeforeUpload(QuestionFormOf(payload)))) = "ok"

InitSame ==
    /\ users = <<AdminUser, ReaderUser>>
    /\ stories = <<StoryRow(1, ListedValues, 1)>>
    /\ questions = <<>>
    /\ sessions = [s \in SessionIds |->
                      [user |-> setLoggedInUser(AdminUser), returnTo |-> NoUrl]]
    /\ \E payload \in Payloads :
           job = [IdleJob EXCEPT !.route = "validate", !.pc = "payload",
                                 !.form = payload]
    /\ disk = {}
    /\ unlinked = {}
    /\ resp = NoResponse
    /\ autoinc = [users |-> 3, stories |-> 2, questions |-> 1]
    /\ learning = [vocabulary |-> <<>>, grammar |-> <<>>]
    /\ signups = [t \in SignupSlots |-> NoSignup]
    /\ seen = {}

\* both workflows validate the payload
ValidateBoth ==
    /\ job.pc = "payload"
    /\ job' = [job EXCEPT !.pc = "validated",
                          !.values = [story |-> StoryWorkflowAccepts(job.form),
                                      question |-> QuestionWorkflowAccepts(job.form)]]
    /\ UNCHANGED <<users, stories, questions, sessions, disk, unlinked, resp,
                   autoinc, learning, signups, seen>>

SpecSame == InitSame /\ [][ValidateBoth]_vars

\* C12 (as claimed): for every question payload aimed at an existing story -
\* prompt, the answers supplied, and a correct-index marker that is absent,
\* non-numeric, in range or out of range - POST /questions accepts it if and
\* only if the per-question validation of POST /stories accepts it.
C12_SameValidation ==
    job.pc = "validated" => (job.values.question <=> job.values.story)

-----------------------------------------------------------------------------
(* Properties of the list queries *)

\* the list a page answered in this state shows, and the rows it is drawn from
ListPageDone ==
    /\ job.pc = "done" /\ resp.status = 200
    /\ \/ job.route \in {"home", "story", "vocabulary", "grammar"}
       \/ job.route = "page" /\ resp.target = <<"questions/new">>

ListShown ==
    CASE job.route = "home" -> resp.values
      [] job.route = "page" -> resp.values.stories
      [] job.route = "story" -> resp.values.questions
      [] job.route = "vocabulary" -> resp.values
      [] job.route = "grammar" -> resp.values

ListSource ==
    CASE job.route \in {"home", "page"} -> Rows(stories)
      [] job.route = "story" ->
            {q \in Rows(questions) : q.story_id = resp.values.story.id}
      [] job.route = "vocabulary" -> Rows(learning.vocabulary)
      [] job.route = "grammar" -> Rows(learning.grammar)

\* every row of the source once, none else
ListsAll(list, rows) ==
    /\ Len(list) = Cardinality(rows)
    /\ {list[i] : i \in 1..Len(list)} = rows

NewestFirst(list) ==
    \A i, j \in 1..Len(list) :
        i < j => \/ list[i].created_at > list[j].created_at
                 \/ /\ list[i].created_at = list[j].created_at
                    /\ list[i].id > list[j].id

AscendingId(list) ==
    \A i, j \in 1..Len(list) : i < j => list[i].id < list[j].id

\* C11 (as claimed): every list read - stories, story summaries, the
\* questions of a story, vocabulary entries, grammar topics - returns all its
\* rows newest-first by creation time, ties broken by descending id.
C11_AllListsNewestFirst ==
    ListPageDone => (ListsAll(ListShown, ListSource) /\ NewestFirst(ListShown))

\* C11 (amended): the lists of stories, story summaries, vocabulary entries
\* and grammar topics return all their rows newest-first by creation time,
\* ties broken by descending id; the list of a story's questions returns all
\* the story's questions by ascending id.
C11_ListsOrdered ==
    ListPageDone =>
        /\ ListsAll(ListShown, ListSource)
        /\ IF job.route = "story" THEN AscendingId(ListShown)
           ELSE NewestFirst(ListShown)

\* the home page lists two stories, the one with the lower id first because
\* its creation time is the later one
C11_Witness ==
    /\ job.route = "home" /\ job.pc = "done"
    /\ Len(resp.values) = 2
    /\ resp.values[1].id = 1 /\ resp.values[2].id = 2
    /\ resp.values[1].created_at > resp.values[2].created_at

-----------------------------------------------------------------------------
(* Properties of signup *)

DuplicateAccount == "An account already exists for that email."

\* a POST /signup of a complete form whose normalized email is in the users
\* table is answered in this step: at the lookup, or at the insert when
\* another signup has stored the email since the lookup
SignupOfPresentEmail ==
    \/ \E t \in SignupSlots, s \in SessionIds, form \in SignupForms :
          /\ SignupReceive(t, s, form)
          /\ form.password = form.confirmPassword /\ Len(form.password) >= 8
          /\ Truthy(normalizeEmail(form.email))
          /\ findUserByEmail(normalizeEmail(form.email)) # {}
    \/ \E t \in SignupSlots :
          SignupInsert(t) /\ findUserByEmail(signups[t].email) # {}

\* C13 (as claimed): under any interleaving of POST /signup requests, every
\* stored email is trimmed and lowercased, no two user rows share an email,
\* and a signup whose normalized email is already present creates no user
\* row, sets no session identity and is answered with the duplicate-account
\* error.
C13_SignupUnique ==
    /\ [](\A i, j \in 1..Len(users) :
            /\ users[i].email = normalizeEmail(users[i].email)
            /\ i # j => users[i].email # users[j].email)
    /\ [][SignupOfPresentEmail =>
            /\ users' = users
            /\ sessions' = sessions
            /\ resp'.status = 400 /\ resp'.error = DuplicateAccount
       ]_vars

-----------------------------------------------------------------------------
(* Properties of the access to the story pages *)

\* a request of session s for the story list, a story detail page or a
\* story creation route is answered in this step
StoryRouteRequest(s) ==
    \/ HomePage(s)
    \/ \E id \in 1..MaxStories : StoryPage(s, id)
    \/ \E route \in StoryCreationRoutes : AdminRequest(s, route)

\* C14 (as claimed): a request to the story list, a story detail page or a
\* story creation route from a session with no identity is redirected to
\* /login and is not served the content.
C14_StoryRoutesProtected ==
    [][\A s \in SessionIds :
          (sessions[s].user = NoUser /\ StoryRouteRequest(s))
          => (resp' = Redirect(<<"/login">>) /\ UNCHANGED ContentTables)
      ]_vars

-----------------------------------------------------------------------------
(* Properties of who inserts content *)

AllContentRows ==
    Rows(stories) \cup Rows(questions) \cup Rows(learning.vocabulary)
        \cup Rows(learning.grammar)

\* the session of the request that acts in this step
ActingSession == IF job.pc = "idle" THEN job'.sid ELSE job.sid

\* C15: after any sequence of signup, login, logout and submission requests,
\* a story, question, vocabulary or grammar row is only inserted by a request
\* whose session identity has the admin email, the new rows carry that
\* identity's id as author, and so the author of every content row is the id
\* of a user row with the admin email.
C15_OnlyAdminInserts ==
    /\ [](\A row \in AllContentRows :
            \E i \in 1..Len(users) :
                users[i].id = row.author_id /\ users[i].email = ADMIN_EMAIL)
    /\ [][AllContentRows' # AllContentRows =>
            /\ sessions[ActingSession].user # NoUser
            /\ sessions[ActingSession].user.email = ADMIN_EMAIL
            /\ \A row \in AllContentRows' \ AllContentRows :
                   row.author_id = sessions[ActingSession].user.id
       ]_vars

\* the admin signed up after the reader and has stored a story with a
\* question under the admin's own id, while the other session is logged in
\* as the reader
C15_Witness ==
    /\ Len(users) = 2 /\ users[2].email = ADMIN_EMAIL
    /\ Len(stories) = 1 /\ stories[1].author_id = 2
    /\ Len(questions) = 1 /\ questions[1].author_id = 2
    /\ \E s \in SessionIds :
           sessions[s].user # NoUser /\ sessions[s].user.email # ADMIN_EMAIL

-----------------------------------------------------------------------------
(* Properties of the stored files *)

\* C16 (as claimed): after a POST /stories whose transaction committed,
\* every file the upload step wrote for the request is the audio_path of
\* exactly one persisted question of the new story.
C16_NoUnreferencedFile ==
    (StoriesDone /\ resp.status = 302 /\ Len(NewStories) = 1)
    => \A i \in 1..Len(job.files) :
           Cardinality({k \in 1..Len(NewQuestions) :
                           /\ NewQuestions[k].story_id = NewStories[1].id
                           /\ NewQuestions[k].audio_path = AudioPath(job.files[i])}) = 1

=============================================================================
